---- MODULE Spec2Model ----
(***************************************************************************)
(* Verification model of the music-store assistant (app/agent): the        *)
(* conversation state, the node graph built by build_graph, its routers,   *)
(* the dialog stack reducer, the tool nodes with their error fallback and  *)
(* the caller loop of main() with its approval protocol.                   *)
(***************************************************************************)
EXTENDS Integers, Sequences, FiniteSets, TLC

VARIABLES
    messages,      \* State.messages: the checkpointed message sequence
    user_info,     \* State.user_info
    dialog_state,  \* State.dialog_state: the dialog stack
    next,          \* snapshot.next of the thread: the node to run, or END
    running,       \* TRUE while the graph executes inside invoke/stream
    mainPc,        \* position of main(): which call it is at or inside
    retries,       \* corrective messages in the local copy of the Assistant
                   \* that runs or ran last
    invoked,       \* ids of the calls handed to update_customer_profile
    resolution,    \* the caller's last answer to a suspension
    turnTrace,     \* nodes executed since the last input was posted
    fnIn,          \* a function applied on its own: its name and arguments
    fnOut,         \* ... and the value it returned
    fnDone,        \* ... once it has returned
    thread_id,     \* config["configurable"]["thread_id"] of the session whose
                   \* step is being taken
    store,         \* MemorySaver: thread_id -> checkpoint, for the sessions
                   \* that are not taking a step
    parked         \* main() of the sessions that are not taking a step

fnVars == << fnIn, fnOut, fnDone >>

sessVars == << thread_id, store, parked >>

vars == << messages, user_info, dialog_state, next, running, mainPc,
           retries, invoked, resolution, turnTrace, fnIn, fnOut, fnDone,
           thread_id, store, parked >>

-----------------------------------------------------------------------------
(* Bounds of the model *)

MaxMsgs == 9
MaxRetries == 1
MaxBatch == 2
MaxStack == 2
MaxSessMsgs == 2

-----------------------------------------------------------------------------
(* Names *)

END == "__end__"
None == "None"

CompleteOrEscalate == "CompleteOrEscalate"
ToCustomerAssistant == "ToCustomerAssistant"
ToMusicAssistant == "ToMusicAssistant"

customer_safe_tools == << "get_customer_info" >>
customer_sensitive_tools == << "update_customer_profile" >>
customer_tools == << "get_customer_info", "update_customer_profile" >>
music_tools == << "check_for_songs", "get_tracks_by_artist", "get_albums_by_artist" >>
primary_tools == << "Router", "ToCustomerAssistant", "ToMusicAssistant" >>

Range(s) == { s[i] : i \in 1..Len(s) }

AssistantNodes == { "primary_assistant", "customer_assistant", "music_assistant" }
ToolNodes == { "primary_assistant_tools", "customer_safe_tools",
               "customer_sensitive_tools", "music_tools" }
EntryNodes == { "enter_customer_profile", "enter_music" }

\* The tool list each tool node was created with.
NodeTools(node) ==
    CASE node = "primary_assistant_tools" -> Range(primary_tools)
      [] node = "customer_safe_tools" -> Range(customer_safe_tools)
      [] node = "customer_sensitive_tools" -> Range(customer_sensitive_tools)
      [] node = "music_tools" -> Range(music_tools)

START == "__start__"

add_edge_fetch ==
    { << START, "fetch_user_info" >>,
      << "fetch_user_info", "primary_assistant" >>,
      << "primary_assistant_tools", "primary_assistant" >>,
      << "enter_customer_profile", "customer_assistant" >>,
      << "customer_safe_tools", "customer_assistant" >>,
      << "customer_sensitive_tools", "customer_assistant" >>,
      << "enter_music", "music_assistant" >>,
      << "music_tools", "music_assistant" >>,
      << "leave_skill", "primary_assistant" >> }

add_edge_music_to_primary ==
    { << START, "fetch_user_info" >>,
      << "primary_assistant_tools", "primary_assistant" >>,
      << "enter_customer_profile", "customer_assistant" >>,
      << "customer_safe_tools", "customer_assistant" >>,
      << "customer_sensitive_tools", "customer_assistant" >>,
      << "enter_music", "music_assistant" >>,
      << "music_tools", "primary_assistant" >>,
      << "leave_skill", "primary_assistant" >> }

\* builder.add_edge: the static edges of the graph.
add_edge ==
    { << START, "fetch_user_info" >>,
      << "primary_assistant_tools", "primary_assistant" >>,
      << "enter_customer_profile", "customer_assistant" >>,
      << "customer_safe_tools", "customer_assistant" >>,
      << "customer_sensitive_tools", "customer_assistant" >>,
      << "enter_music", "music_assistant" >>,
      << "music_tools", "music_assistant" >>,
      << "leave_skill", "primary_assistant" >> }

Edge_leave_to_customer(node) ==
    CASE node = "primary_assistant_tools" -> "primary_assistant"
      [] node = "customer_safe_tools" -> "customer_assistant"
      [] node = "customer_sensitive_tools" -> "customer_assistant"
      [] node = "music_tools" -> "music_assistant"
      [] node = "enter_customer_profile" -> "customer_assistant"
      [] node = "enter_music" -> "music_assistant"
      [] node = "leave_skill" -> "customer_assistant"

\* The static edge leaving each non-assistant node.
Edge(node) == CHOOSE target \in AssistantNodes : << node, target >> \in add_edge

\* The new_dialog_state each entry node was created with.
EntryDialogState_swapped(node) ==
    CASE node = "enter_customer_profile" -> "music_assistant"
      [] node = "enter_music" -> "customer_assistant"

EntryDialogState(node) ==
    CASE node = "enter_customer_profile" -> "customer_assistant"
      [] node = "enter_music" -> "music_assistant"

interrupt_before_tools == { "customer_sensitive_tools", "customer_safe_tools" }
interrupt_before_none == {}
interrupt_before == { "customer_sensitive_tools" }

-----------------------------------------------------------------------------
(* Messages *)

AIMessage(calls, content) ==
    [ type |-> "ai", calls |-> calls, tcid |-> 0, content |-> content ]
HumanMessage ==
    [ type |-> "human", calls |-> << >>, tcid |-> 0, content |-> "text" ]
SystemMessage ==
    [ type |-> "system", calls |-> << >>, tcid |-> 0, content |-> "text" ]
ToolMessage(content, tool_call_id) ==
    [ type |-> "tool", calls |-> << >>, tcid |-> tool_call_id, content |-> content ]
\* ("user", "Respond with a real output."): the corrective instruction.
CorrectiveMessage ==
    [ type |-> "human", calls |-> << >>, tcid |-> 0,
      content |-> "Respond with a real output." ]

Last(s) == s[Len(s)]

RECURSIVE NumCalls(_)
NumCalls(msgs) ==
    IF msgs = << >> THEN 0
    ELSE NumCalls(SubSeq(msgs, 1, Len(msgs) - 1)) + Len(Last(msgs).calls)

\* The tool calls of a completion: the service numbers its calls freshly.
MakeCalls(msgs, names) ==
    [ i \in 1..Len(names) |-> [ id |-> NumCalls(msgs) + i, name |-> names[i] ] ]

add_messages_front(left, right) == right \o left

add_messages(left, right) == left \o right

-----------------------------------------------------------------------------
(* utils/state.py *)

update_dialog_stack_keep(left, right) ==
    IF right = None THEN left
    ELSE IF right = "pop" THEN left
    ELSE left \o << right >>

update_dialog_stack(left, right) ==
    IF right = None THEN left
    ELSE IF right = "pop" THEN SubSeq(left, 1, Len(left) - 1)
    ELSE left \o << right >>

-----------------------------------------------------------------------------
(* utils/nodes.py *)

handle_tool_error_first(state) ==
    << ToolMessage("fallback_error", Last(state.messages).calls[1].id) >>

handle_tool_error(state) ==
    LET tool_calls == Last(state.messages).calls
    IN  [ i \in 1..Len(tool_calls) |->
            ToolMessage("fallback_error", tool_calls[i].id) ]

entry_node(new_dialog_state, state) ==
    [ messages |-> << ToolMessage("enter", Last(state.messages).calls[1].id) >>,
      dialog_state |-> new_dialog_state ]

pop_dialog_state_last(state) ==
    [ messages |-> IF Last(state.messages).calls # << >>
                   THEN << ToolMessage("resume_host",
                              Last(Last(state.messages).calls).id) >>
                   ELSE << >>,
      dialog_state |-> "pop" ]

pop_dialog_state(state) ==
    [ messages |-> IF Last(state.messages).calls # << >>
                   THEN << ToolMessage("resume_host", Last(state.messages).calls[1].id) >>
                   ELSE << >>,
      dialog_state |-> "pop" ]

\* state.get("dialog_state") is None when the key is absent; an absent or
\* empty stack is falsy.
route_to_workflow_stuck(state) ==
    IF "dialog_state" \notin DOMAIN state THEN "customer_assistant"
    ELSE IF state.dialog_state = << >> THEN "customer_assistant"
    ELSE "primary_assistant"

route_to_workflow(state) ==
    IF "dialog_state" \notin DOMAIN state THEN "primary_assistant"
    ELSE IF state.dialog_state = << >> THEN "primary_assistant"
    ELSE Last(state.dialog_state)

-----------------------------------------------------------------------------
(* agent.py *)

tools_condition_first(state) ==
    IF state.messages = << >> THEN "ValueError"
    ELSE IF state.messages[1].type = "ai" /\ Len(state.messages[1].calls) > 0
         THEN "tools"
         ELSE END

tools_condition_several(state) ==
    IF state.messages = << >> THEN "ValueError"
    ELSE IF Last(state.messages).type = "ai" /\ Len(Last(state.messages).calls) > 1
         THEN "tools"
         ELSE END

\* langgraph.prebuilt.tools_condition as the routers use it.
tools_condition(state) ==
    IF state.messages = << >> THEN "ValueError"
    ELSE IF Last(state.messages).type = "ai" /\ Len(Last(state.messages).calls) > 0
         THEN "tools"
         ELSE END

route_primary_assistant_leave(state) ==
    IF tools_condition(state) = END THEN END
    ELSE LET tool_calls == Last(state.messages).calls
         IN  IF \E i \in 1..Len(tool_calls) : tool_calls[i].name = CompleteOrEscalate
             THEN "leave_skill"
             ELSE IF tool_calls[1].name = ToCustomerAssistant
                  THEN "enter_customer_profile"
                  ELSE IF tool_calls[1].name = ToMusicAssistant
                       THEN "enter_music"
                       ELSE "primary_assistant_tools"

route_primary_assistant(state) ==
    IF tools_condition(state) = END THEN END
    ELSE LET tool_calls == Last(state.messages).calls
         IN  IF tool_calls # << >>
             THEN IF tool_calls[1].name = ToCustomerAssistant
                  THEN "enter_customer_profile"
                  ELSE IF tool_calls[1].name = ToMusicAssistant
                       THEN "enter_music"
                       ELSE "primary_assistant_tools"
             ELSE "ValueError"

route_customer_assistant_head(state) ==
    IF tools_condition(state) = END THEN END
    ELSE LET tool_calls == Last(state.messages).calls
             did_cancel == tool_calls[1].name = CompleteOrEscalate
             safe_toolnames == Range(customer_safe_tools)
         IN  IF did_cancel THEN "leave_skill"
             ELSE IF \A i \in 1..Len(tool_calls) :
                        tool_calls[i].name \in safe_toolnames
                  THEN "customer_safe_tools"
                  ELSE "customer_sensitive_tools"

route_customer_assistant_first(state) ==
    IF tools_condition(state) = END THEN END
    ELSE LET tool_calls == Last(state.messages).calls
             did_cancel == \E i \in 1..Len(tool_calls) :
                              tool_calls[i].name = CompleteOrEscalate
         IN  IF did_cancel THEN "leave_skill"
             ELSE IF tool_calls[1].name \in Range(customer_safe_tools)
                  THEN "customer_safe_tools"
                  ELSE "customer_sensitive_tools"

route_customer_assistant(state) ==
    IF tools_condition(state) = END THEN END
    ELSE LET tool_calls == Last(state.messages).calls
             did_cancel == \E i \in 1..Len(tool_calls) :
                              tool_calls[i].name = CompleteOrEscalate
             safe_toolnames == Range(customer_safe_tools)
         IN  IF did_cancel THEN "leave_skill"
             ELSE IF \A i \in 1..Len(tool_calls) :
                        tool_calls[i].name \in safe_toolnames
                  THEN "customer_safe_tools"
                  ELSE "customer_sensitive_tools"

route_music_assistant(state) ==
    IF tools_condition(state) = END THEN END
    ELSE LET tool_calls == Last(state.messages).calls
             did_cancel == \E i \in 1..Len(tool_calls) :
                              tool_calls[i].name = CompleteOrEscalate
         IN  IF did_cancel THEN "leave_skill" ELSE "music_tools"

\* The conditional edge leaving each assistant node.
Router(node, state) ==
    CASE node = "primary_assistant" -> route_primary_assistant(state)
      [] node = "customer_assistant" -> route_customer_assistant(state)
      [] node = "music_assistant" -> route_music_assistant(state)

\* builder.add_conditional_edges: the nodes left by a conditional edge and
\* the target its path function selects.
add_conditional_edges(node, state) ==
    IF node = "fetch_user_info" THEN { route_to_workflow(state) }
    ELSE IF node \in AssistantNodes THEN { Router(node, state) }
    ELSE {}

\* The nodes scheduled once `node` has written its output into `state`.
Successors(node, state) ==
    { e[2] : e \in { x \in add_edge : x[1] = node } }
    \cup add_conditional_edges(node, state)

\* ToolNode(tools): one ToolMessage per call of the latest message, in order.
\* A name outside the node's tool list is answered by an error message; a
\* call whose tool raises is answered by an error message when the node
\* catches it.
ToolNode(tools, state, outcomes) ==
    LET tool_calls == Last(state.messages).calls
    IN  [ i \in 1..Len(tool_calls) |->
            IF tool_calls[i].name \notin tools
            THEN ToolMessage("invalid_tool", tool_calls[i].id)
            ELSE IF outcomes[i] = "raise"
                 THEN ToolMessage("tool_error", tool_calls[i].id)
                 ELSE ToolMessage("result", tool_calls[i].id) ]

\* A tool exception the node does not catch leaves the node as an exception.
ToolNodeRaises(tools, state, outcomes, caught) ==
    /\ ~caught
    /\ \E i \in 1..Len(Last(state.messages).calls) :
          Last(state.messages).calls[i].name \in tools /\ outcomes[i] = "raise"

create_tool_node_with_fallback(tools, state, outcomes, caught) ==
    IF ToolNodeRaises(tools, state, outcomes, caught)
    THEN handle_tool_error(state)
    ELSE ToolNode(tools, state, outcomes)

\* The calls of the latest message that a tool node hands to
\* update_customer_profile.
UpdateCalls(tools, state) ==
    { c.id : c \in { d \in Range(Last(state.messages).calls) :
                        d.name \in tools /\ d.name = "update_customer_profile" } }

-----------------------------------------------------------------------------
(* The Completion Service *)

\* A completion: the names of its tool calls and the shape of its content
\* ("text", "" for empty text, "list_text" and "list_notext" for a content
\* list whose first element has, or lacks, a text).
Completion(names, content) == [ names |-> names, content |-> content ]

Completions ==
    { Completion(<< >>, c) : c \in { "text", "", "list_text", "list_notext" } }
    \cup { Completion(n, "") : n \in
            { << "ToCustomerAssistant" >>, << "ToMusicAssistant" >>,
              << "ToMusicAssistant", "ToCustomerAssistant" >>,
              << "get_customer_info" >>, << "update_customer_profile" >>,
              << "get_customer_info", "update_customer_profile" >>,
              << "get_customer_info", "get_customer_info" >>,
              << "CompleteOrEscalate" >>,
              << "update_customer_profile", "CompleteOrEscalate" >>,
              << "check_for_songs" >>,
              << "unknown_tool" >> } }

Degenerate_textonly(result) ==
    /\ result.names = << >>
    /\ result.content = ""

\* Assistant.__call__: the test that sends the loop into another attempt.
Degenerate(result) ==
    /\ result.names = << >>
    /\ \/ result.content = ""
       \/ result.content = "list_notext"

Assistant_call_local(state, result, n) ==
    [ messages |-> [ i \in 1..n |-> CorrectiveMessage ]
                   \o << AIMessage(MakeCalls(state.messages, result.names),
                                   result.content) >> ]

\* Assistant.__call__: the update returned once the loop is left, after n
\* corrective messages were added to the local copy of the state: the result
\* alone.
Assistant_call(state, result, n) ==
    [ messages |-> << AIMessage(MakeCalls(state.messages, result.names),
                                result.content) >> ]

\* utils/tools.py get_user_info: the row of the configured customer, as the
\* updates handed to update_customer_profile so far have left it.
get_user_info(updates) == [ customer |-> "row", updates |-> Cardinality(updates) ]

-----------------------------------------------------------------------------
(* The graph engine and main() *)

State == [ messages |-> messages, user_info |-> user_info,
           dialog_state |-> dialog_state ]

TypeOK ==
    /\ Len(messages) <= MaxMsgs
    /\ running \in BOOLEAN
    /\ retries \in 0..MaxRetries
    /\ mainPc \in { "invoke_empty", "invoke_system", "input", "stream",
                     "approval", "resume", "exit" }
    /\ resolution \in { "none", "approved", "denied" }

\* main.py: every session draws its own thread_id (uuid4) and starts main()
\* at the first invoke.
ThreadIds == { "thread_1", "thread_2" }

Started ==
    [ mainPc |-> "invoke_empty", running |-> FALSE, retries |-> 0,
      resolution |-> "none", turnTrace |-> << >> ]

\* MemorySaver: the checkpoints by thread_id.  A thread without a checkpoint
\* starts from the empty State.
put_shared(saved, thread, checkpoint) ==
    [ t \in DOMAIN saved \cup { thread } |-> checkpoint ]

put(saved, thread, checkpoint) ==
    [ t \in DOMAIN saved \cup { thread } |->
        IF t = thread THEN checkpoint ELSE saved[t] ]

get_tuple(saved, thread) ==
    IF thread \in DOMAIN saved
    THEN saved[thread]
    ELSE [ messages |-> << >>,
           user_info |-> [ customer |-> None, updates |-> 0 ],
           dialog_state |-> << >>, next |-> END ]

EngineInit ==
    /\ messages = << >>
    /\ user_info = [ customer |-> None, updates |-> 0 ]
    /\ dialog_state = << >>
    /\ next = END
    /\ running = FALSE
    /\ mainPc = "invoke_empty"
    /\ retries = 0
    /\ invoked = {}
    /\ resolution = "none"
    /\ turnTrace = << >>
    /\ thread_id = "thread_1"
    /\ store = << >>
    /\ parked = [ t \in ThreadIds |-> Started ]

Init ==
    /\ EngineInit
    /\ fnIn = [ fn |-> None ]
    /\ fnOut = None
    /\ fnDone = FALSE

\* main.py print_latest_event on the final state of a run: the latest AI or
\* tool message is the one printed.
print_latest_event(msgs) ==
    LET shown == { i \in 1..Len(msgs) : msgs[i].type \in { "ai", "tool" } }
    IN  IF shown = {} THEN None
        ELSE msgs[CHOOSE i \in shown : \A j \in shown : j <= i]

\* Where main() stands once the call it is inside returns with nxt pending.
AfterRun(pc, nxt) ==
    CASE pc = "invoke_empty" -> "invoke_system"
      [] pc = "invoke_system" -> "input"
      [] pc \in { "stream", "resume" } ->
            IF nxt = END THEN "input" ELSE "approval"

\* The engine after a node wrote its output and `chosen` is its successor:
\* the run ends at END, stops before a node of interrupt_before, or goes on.
Settle(chosen) ==
    IF chosen = END \/ chosen \in interrupt_before
    THEN /\ next' = chosen
         /\ running' = FALSE
         /\ mainPc' = AfterRun(mainPc, chosen)
    ELSE /\ next' = chosen
         /\ running' = TRUE
         /\ UNCHANGED mainPc

\* A call of the graph with an input: the input is applied to the thread's
\* latest checkpoint and the run starts from START.
StartRun(input) ==
    /\ ~running
    /\ Len(messages) + Len(input) <= MaxMsgs
    /\ messages' = add_messages(messages, input)
    /\ next' = "fetch_user_info"
    /\ running' = TRUE
    /\ retries' = 0
    /\ resolution' = "none"
    /\ turnTrace' = << >>
    /\ UNCHANGED << user_info, dialog_state, invoked, fnVars, sessVars >>

InvokeEmpty ==
    /\ mainPc = "invoke_empty"
    /\ StartRun(<< >>)
    /\ UNCHANGED mainPc

InvokeSystem ==
    /\ mainPc = "invoke_system"
    /\ StartRun(<< SystemMessage >>)
    /\ UNCHANGED mainPc

PostMessage ==
    /\ mainPc = "input"
    /\ StartRun(<< HumanMessage >>)
    /\ mainPc' = "stream"

Quit ==
    /\ mainPc = "input"
    /\ mainPc' = "exit"
    /\ UNCHANGED << messages, user_info, dialog_state, next, running, retries,
                    invoked, resolution, turnTrace, fnVars, sessVars >>

FetchUserInfo ==
    /\ running
    /\ next = "fetch_user_info"
    /\ user_info' = get_user_info(invoked)
    /\ Settle(route_to_workflow([ State EXCEPT !.user_info = get_user_info(invoked) ]))
    /\ turnTrace' = Append(turnTrace, next)
    /\ UNCHANGED << messages, dialog_state, retries, invoked, resolution, fnVars, sessVars >>

Assistant ==
    /\ running
    /\ next \in AssistantNodes
    /\ UNCHANGED << fnVars, sessVars >>
    /\ \E result \in Completions :
          IF Degenerate(result)
          THEN /\ retries < MaxRetries
               /\ retries' = retries + 1
               /\ UNCHANGED << messages, user_info, dialog_state, next, running,
                               mainPc, invoked, resolution, turnTrace >>
          ELSE /\ LET out == Assistant_call(State, result, retries)
                      new == add_messages(messages, out.messages)
                  IN  /\ Len(new) <= MaxMsgs
                      /\ messages' = new
                      /\ Settle(Router(next, [ State EXCEPT !.messages = new ]))
               /\ UNCHANGED retries
               /\ resolution' = "none"
               /\ turnTrace' = Append(turnTrace, next)
               /\ UNCHANGED << user_info, dialog_state, invoked >>

AfterRaise_exit(pc) == "exit"

\* Where main() stands once the call it is inside raises: the invokes that
\* precede the chat loop are under the outer handler, which ends main();
\* the chat loop's handler returns to the prompt.
AfterRaise(pc) ==
    IF pc \in { "invoke_empty", "invoke_system" } THEN "exit" ELSE "input"

\* Assistant.__call__: runnable.invoke raises (the completion service
\* fails). The node writes nothing, the run ends with the exception, and the
\* checkpoint stays the one written before the node, with the node pending.
CompletionFails ==
    /\ running
    /\ next \in AssistantNodes
    /\ running' = FALSE
    /\ mainPc' = AfterRaise(mainPc)
    /\ turnTrace' = Append(turnTrace, "CompletionError")
    /\ UNCHANGED << messages, user_info, dialog_state, next, retries, invoked,
                    resolution, fnVars, sessVars >>

ToolNodeStep ==
    /\ running
    /\ next \in ToolNodes
    /\ \E outcomes \in [ 1..Len(Last(messages).calls) -> { "ok", "raise" } ],
          caught \in BOOLEAN :
          LET out == create_tool_node_with_fallback(NodeTools(next), State,
                                                    outcomes, caught)
          IN  /\ Len(messages) + Len(out) <= MaxMsgs
              /\ messages' = add_messages(messages, out)
    /\ invoked' = invoked \cup UpdateCalls(NodeTools(next), State)
    /\ Settle(Edge(next))
    /\ resolution' = "none"
    /\ turnTrace' = Append(turnTrace, next)
    /\ retries' = 0
    /\ UNCHANGED << user_info, dialog_state, fnVars, sessVars >>

EnterSkill ==
    /\ running
    /\ next \in EntryNodes
    /\ Len(messages) < MaxMsgs
    /\ LET out == entry_node(EntryDialogState(next), State)
       IN  /\ messages' = add_messages(messages, out.messages)
           /\ dialog_state' = update_dialog_stack(dialog_state, out.dialog_state)
    /\ Settle(Edge(next))
    /\ resolution' = "none"
    /\ turnTrace' = Append(turnTrace, next)
    /\ retries' = 0
    /\ UNCHANGED << user_info, invoked, fnVars, sessVars >>

LeaveSkill ==
    /\ running
    /\ next = "leave_skill"
    /\ LET out == pop_dialog_state(State)
       IN  /\ Len(messages) + Len(out.messages) <= MaxMsgs
           /\ messages' = add_messages(messages, out.messages)
           /\ dialog_state' = update_dialog_stack(dialog_state, out.dialog_state)
    /\ Settle(Edge(next))
    /\ resolution' = "none"
    /\ turnTrace' = Append(turnTrace, next)
    /\ retries' = 0
    /\ UNCHANGED << user_info, invoked, fnVars, sessVars >>

ApproveRestart ==
    /\ mainPc = "approval"
    /\ mainPc' = "resume"
    /\ running' = TRUE
    /\ resolution' = "approved"
    /\ next' = "fetch_user_info"
    /\ UNCHANGED << messages, user_info, dialog_state, retries, invoked,
                    turnTrace, fnVars, sessVars >>

\* main(): the caller answers "y"; graph.invoke(None, config) resumes the
\* thread at its pending node.
Approve ==
    /\ mainPc = "approval"
    /\ mainPc' = "resume"
    /\ running' = TRUE
    /\ resolution' = "approved"
    /\ UNCHANGED << messages, user_info, dialog_state, next, retries, invoked,
                    turnTrace, fnVars, sessVars >>

\* main(): any other answer. The denial ToolMessage is built without a
\* tool_call_id, which the message type requires: the constructor raises,
\* graph.invoke is not reached, and the handler of the chat loop returns
\* main() to the prompt with the thread still at its pending node.
Deny ==
    /\ mainPc = "approval"
    /\ mainPc' = "input"
    /\ resolution' = "denied"
    /\ UNCHANGED << messages, user_info, dialog_state, next, running, retries,
                    invoked, turnTrace, fnVars, sessVars >>

Next ==
    \/ InvokeEmpty
    \/ InvokeSystem
    \/ PostMessage
    \/ Quit
    \/ FetchUserInfo
    \/ Assistant
    \/ CompletionFails
    \/ ToolNodeStep
    \/ EnterSkill
    \/ LeaveSkill
    \/ Approve
    \/ Deny

Spec == Init /\ [][Next]_vars

-----------------------------------------------------------------------------
(* Two sessions: main() run twice, their steps interleaved *)

\* A step of the session that holds the engine.
SessionStep ==
    /\ Next
    /\ Len(messages') <= MaxSessMsgs

\* The other session takes the next step: the checkpoint of the one that
\* stepped last is put in the store under its thread_id, the other one's is
\* loaded from the store by its own and is the engine's state from then on.  The customers table (invoked) is the
\* one database both sessions use.
Switch ==
    \E t \in ThreadIds \ { thread_id } :
        LET saved == put(store, thread_id,
                         [ messages |-> messages, user_info |-> user_info,
                           dialog_state |-> dialog_state, next |-> next ])
            loaded == get_tuple(saved, t)
        IN  /\ thread_id' = t
            /\ store' = [ u \in DOMAIN saved \ { t } |-> saved[u] ]
            /\ parked' = [ u \in ThreadIds |->
                             IF u = thread_id
                             THEN [ mainPc |-> mainPc, running |-> running,
                                    retries |-> retries, resolution |-> resolution,
                                    turnTrace |-> turnTrace ]
                             ELSE Started ]
            /\ messages' = loaded.messages
            /\ user_info' = loaded.user_info
            /\ dialog_state' = loaded.dialog_state
            /\ next' = loaded.next
            /\ mainPc' = parked[t].mainPc
            /\ running' = parked[t].running
            /\ retries' = parked[t].retries
            /\ resolution' = parked[t].resolution
            /\ turnTrace' = parked[t].turnTrace
            /\ UNCHANGED << invoked, fnVars >>

SessNext ==
    \/ SessionStep
    \/ Switch

SpecSessions == Init /\ [][SessNext]_vars

-----------------------------------------------------------------------------
(* The functions of the graph applied on their own, over all bounded inputs *)

ToolNames ==
    Range(customer_tools) \cup Range(music_tools) \cup Range(primary_tools)
    \cup { CompleteOrEscalate, "unknown_tool" }

Contexts == { "primary_assistant", "customer_assistant", "music_assistant" }

SeqsUpTo(S, n) == UNION { [ 1..k -> S ] : k \in 0..n }

Batches == SeqsUpTo(ToolNames, MaxBatch) \ { << >> }
Stacks == SeqsUpTo(Contexts, MaxStack)

\* Message histories that end in a completion carrying the batch.
Histories(batch) ==
    { h \o << AIMessage(MakeCalls(h, batch), "") >> :
        h \in { << >>, << HumanMessage >>,
                << HumanMessage,
                   AIMessage(MakeCalls(<< >>, << "get_customer_info" >>), ""),
                   ToolMessage("result", 1) >> } }

\* Message histories that end in a message without tool calls.
PlainHistories ==
    { << HumanMessage >>, << HumanMessage, AIMessage(<< >>, "text") >>,
      << SystemMessage, AIMessage(<< >>, "list_text") >> }

RouterStates ==
    { [ messages |-> h, user_info |-> u, dialog_state |-> d ] :
        h \in PlainHistories \cup UNION { Histories(b) : b \in Batches },
        u \in { None, "row" },
        d \in { << >>, << "customer_assistant" >> } }

\* The states leave_skill is applied to: the latest message is an AIMessage.
LeaveStates ==
    { st \in RouterStates : Last(st.messages).type = "ai" }

\* update_customer_profile and the customers table it writes.  A Python
\* value is a record of its type and its content; a string is the sequence
\* of its characters.
MaxCustomerId == 3
MaxValueLen == 2

valid_fields ==
    << "FirstName", "LastName", "Company", "Address", "City", "State",
       "Country", "PostalCode", "Phone", "Fax", "Email", "SupportRepId" >>

Columns == { valid_fields[i] : i \in DOMAIN valid_fields }

isinstance(value, type) == value.type = type

RECURSIVE lstrip(_)
lstrip(s) ==
    IF s # << >> /\ Head(s) = " " THEN lstrip(Tail(s)) ELSE s

RECURSIVE rstrip(_)
rstrip(s) ==
    IF s # << >> /\ s[Len(s)] = " " THEN rstrip(SubSeq(s, 1, Len(s) - 1)) ELSE s

strip(s) == rstrip(lstrip(s))

\* The three validations, in the order of the code; None when all pass.
Validate_nostrip(customer_id, field, new_value) ==
    IF ~isinstance(customer_id, "int") \/ customer_id.value <= 0
    THEN "Invalid customer ID. Please provide a valid positive integer."
    ELSE IF ~\E i \in DOMAIN valid_fields : valid_fields[i] = field
    THEN "Invalid field"
    ELSE IF ~isinstance(new_value, "str") \/ Len(new_value.value) = 0
    THEN "Invalid value. Please provide a valid new value."
    ELSE None

Validate(customer_id, field, new_value) ==
    IF ~isinstance(customer_id, "int") \/ customer_id.value <= 0
    THEN "Invalid customer ID. Please provide a valid positive integer."
    ELSE IF ~\E i \in DOMAIN valid_fields : valid_fields[i] = field
    THEN "Invalid field"
    ELSE IF ~isinstance(new_value, "str") \/ Len(strip(new_value.value)) = 0
    THEN "Invalid value. Please provide a valid new value."
    ELSE None

\* UPDATE customers SET field = ? WHERE CustomerID = ?: the rows it matches
\* and the table after the commit.
Matching(customers, customer_id) ==
    { id \in DOMAIN customers : id = customer_id.value }

rowcount_one(customers, customer_id) == 1

rowcount(customers, customer_id) == Cardinality(Matching(customers, customer_id))

Execute(customers, customer_id, field, new_value) ==
    [ id \in DOMAIN customers |->
        IF id \in Matching(customers, customer_id)
        THEN [ customers[id] EXCEPT ![field] = new_value.value ]
        ELSE customers[id] ]

\* The exception classes that can leave the try block, each with its base.
Base ==
    [ c \in { "sqlite3.OperationalError", "sqlite3.IntegrityError",
              "sqlite3.Error", "TypeError", "Exception", "KeyboardInterrupt" } |->
        CASE c \in { "sqlite3.OperationalError", "sqlite3.IntegrityError" } ->
                 "sqlite3.Error"
          [] c \in { "sqlite3.Error", "TypeError" } -> "Exception"
          [] OTHER -> "BaseException" ]

RECURSIVE issubclass(_, _)
issubclass(c, base) ==
    \/ c = base
    \/ c \in DOMAIN Base /\ issubclass(Base[c], base)

\* fault is what sqlite3 does inside the try block: "none", or the class of
\* the exception raised before the commit takes effect.
update_customer_profile(customer_id, field, new_value, customers, fault) ==
    LET invalid == Validate(customer_id, field, new_value)
    IN  IF invalid # None
        THEN [ result |-> [ key |-> "error", text |-> invalid ],
               customers |-> customers, raised |-> None ]
        ELSE IF fault = "none"
        THEN IF rowcount(customers, customer_id) = 0
             THEN [ result |-> [ key |-> "error", text |-> "No rows updated" ],
                    customers |-> Execute(customers, customer_id, field, new_value),
                    raised |-> None ]
             ELSE [ result |-> [ key |-> "success", text |-> "updated" ],
                    customers |-> Execute(customers, customer_id, field, new_value),
                    raised |-> None ]
        ELSE IF issubclass(fault, "sqlite3.Error")
        THEN [ result |-> [ key |-> "error",
                            text |-> "An error occurred while updating the field" ],
               customers |-> customers, raised |-> None ]
        ELSE IF issubclass(fault, "Exception")
        THEN [ result |-> [ key |-> "error",
                            text |-> "An unexpected error occurred." ],
               customers |-> customers, raised |-> None ]
        ELSE [ result |-> None, customers |-> customers, raised |-> fault ]

\* get_customer_info: the id check, then SELECT * FROM customers WHERE
\* CustomerID = id through db.run, whose rows are returned when there are any.
InvalidCustomerId_negative(customer_id) ==
    ~isinstance(customer_id, "int") \/ customer_id.value < 0

InvalidCustomerId(customer_id) ==
    ~isinstance(customer_id, "int") \/ customer_id.value <= 0

db_run(customers, customer_id) ==
    IF customer_id.value \in DOMAIN customers
    THEN << customers[customer_id.value] >>
    ELSE << >>

\* fault is what db.run does: "none", or the class of the exception it raises.
get_customer_info(customer_id, customers, fault) ==
    IF InvalidCustomerId(customer_id)
    THEN [ result |-> [ key |-> "error",
                        text |-> "Invalid customer ID. Please provide a valid positive integer." ],
           queried |-> FALSE, customers |-> customers, raised |-> None ]
    ELSE IF fault = "none"
    THEN LET result == db_run(customers, customer_id)
         IN  IF result # << >>
             THEN [ result |-> [ key |-> "rows", rows |-> result ],
                    queried |-> TRUE, customers |-> customers, raised |-> None ]
             ELSE [ result |-> [ key |-> "error", text |-> "No customer found" ],
                    queried |-> TRUE, customers |-> customers, raised |-> None ]
    ELSE IF issubclass(fault, "Exception")
    THEN [ result |-> [ key |-> "error",
                        text |-> "An error occurred while fetching customer info" ],
           queried |-> TRUE, customers |-> customers, raised |-> None ]
    ELSE [ result |-> None, queried |-> TRUE, customers |-> customers,
           raised |-> fault ]

\* The arguments update_customer_profile is applied to.
RECURSIVE Strings(_)
Strings(n) ==
    IF n = 0 THEN { << >> }
    ELSE Strings(n - 1) \cup
         { Append(s, c) : s \in { t \in Strings(n - 1) : Len(t) = n - 1 },
                          c \in { " ", "a" } }

CustomerIdArgs ==
    { [ type |-> "int", value |-> n ] : n \in -1..MaxCustomerId } \cup
    { [ type |-> "str", value |-> 1 ], [ type |-> "float", value |-> 1 ] }

FieldArgs == Columns \cup { "CustomerId", "email", "" }

NewValueArgs ==
    { [ type |-> "str", value |-> s ] : s \in Strings(MaxValueLen) } \cup
    { [ type |-> "NoneType", value |-> << >> ] }

Table(ids) == [ id \in ids |-> [ c \in Columns |-> << "a" >> ] ]

Tables == { Table(1..(MaxCustomerId - 1)), Table({}) }

FnInit ==
    /\ EngineInit
    /\ fnOut = None
    /\ fnDone = FALSE
    /\ \/ fnIn \in [ fn : { "update_dialog_stack" }, left : Stacks,
                      right : Contexts \cup { None, "pop" } ]
       \/ fnIn \in [ fn : { "route_to_workflow" },
                      state : [ messages : PlainHistories,
                                user_info : { None, "row" },
                                dialog_state : Stacks ] ]
       \/ fnIn \in [ fn : { "route_to_workflow" },
                      state : [ messages : PlainHistories,
                                user_info : { None, "row" } ] ]
       \/ fnIn \in [ fn : { "route_primary_assistant", "route_customer_assistant",
                             "route_music_assistant" },
                      state : RouterStates ]
       \/ fnIn \in [ fn : { "pop_dialog_state" }, state : LeaveStates ]
       \/ fnIn \in [ fn : { "update_customer_profile" },
                      customer_id : CustomerIdArgs, field : FieldArgs,
                      new_value : NewValueArgs, customers : Tables,
                      fault : { "none", "sqlite3.OperationalError",
                                "sqlite3.IntegrityError", "TypeError",
                                "KeyboardInterrupt" } ]
       \/ fnIn \in [ fn : { "get_customer_info" },
                      customer_id : CustomerIdArgs, customers : Tables,
                      fault : { "none", "sqlite3.OperationalError", "TypeError" } ]
       \/ \E b \in Batches :
             fnIn \in [ fn : { "tool_node" }, node : ToolNodes,
                        state : { [ messages |-> << HumanMessage,
                                                    AIMessage(MakeCalls(<< >>, b), "") >>,
                                    user_info |-> None,
                                    dialog_state |-> << >> ] },
                        outcomes : [ 1..Len(b) -> { "ok", "raise" } ],
                        caught : BOOLEAN ]

Apply(name, value) ==
    /\ ~fnDone
    /\ fnIn.fn = name
    /\ fnOut' = value
    /\ fnDone' = TRUE
    /\ UNCHANGED << messages, user_info, dialog_state, next, running, mainPc,
                    retries, invoked, resolution, turnTrace, fnIn, sessVars >>

FnUpdateDialogStack ==
    /\ fnIn.fn = "update_dialog_stack"
    /\ Apply("update_dialog_stack", update_dialog_stack(fnIn.left, fnIn.right))

FnRouteToWorkflow ==
    /\ fnIn.fn = "route_to_workflow"
    /\ Apply("route_to_workflow", route_to_workflow(fnIn.state))

FnRoutePrimary ==
    /\ fnIn.fn = "route_primary_assistant"
    /\ Apply("route_primary_assistant", route_primary_assistant(fnIn.state))

FnRouteCustomer ==
    /\ fnIn.fn = "route_customer_assistant"
    /\ Apply("route_customer_assistant", route_customer_assistant(fnIn.state))

FnRouteMusic ==
    /\ fnIn.fn = "route_music_assistant"
    /\ Apply("route_music_assistant", route_music_assistant(fnIn.state))

FnToolNode ==
    /\ fnIn.fn = "tool_node"
    /\ Apply("tool_node",
             create_tool_node_with_fallback(NodeTools(fnIn.node), fnIn.state,
                                            fnIn.outcomes, fnIn.caught))

FnPopDialogState ==
    /\ fnIn.fn = "pop_dialog_state"
    /\ Apply("pop_dialog_state", pop_dialog_state(fnIn.state))

FnUpdateCustomerProfile ==
    /\ fnIn.fn = "update_customer_profile"
    /\ Apply("update_customer_profile",
             update_customer_profile(fnIn.customer_id, fnIn.field, fnIn.new_value,
                                     fnIn.customers, fnIn.fault))

FnGetCustomerInfo ==
    /\ fnIn.fn = "get_customer_info"
    /\ Apply("get_customer_info",
             get_customer_info(fnIn.customer_id, fnIn.customers, fnIn.fault))

FnNext ==
    \/ FnUpdateDialogStack
    \/ FnRouteToWorkflow
    \/ FnRoutePrimary
    \/ FnRouteCustomer
    \/ FnRouteMusic
    \/ FnToolNode
    \/ FnPopDialogState
    \/ FnUpdateCustomerProfile
    \/ FnGetCustomerInfo

SpecFn == FnInit /\ [][FnNext]_vars

-----------------------------------------------------------------------------
(* Properties *)

Sensitive == "customer_sensitive_tools"

FnCalls == Last(fnIn.state.messages).calls
FnNames == [ i \in 1..Len(FnCalls) |-> FnCalls[i].name ]
Applied(name) == fnDone /\ fnIn.fn = name

\* C1: update_customer_profile is invoked only by a step of the node
\* customer_sensitive_tools, and that node runs only inside a resume that
\* the caller approved, which is given only while the run is suspended with
\* that node pending.
C1_UpdateOnlyAfterApproval ==
    [][ /\ (invoked' # invoked) =>
              (next = Sensitive /\ mainPc = "resume" /\ resolution = "approved")
        /\ (running /\ next = Sensitive) =>
              (mainPc = "resume" /\ resolution = "approved")
        /\ (resolution' = "approved" /\ resolution # "approved") =>
              (mainPc = "approval" /\ ~running /\ next = Sensitive)
      ]_vars

C1_Witness ==
    /\ invoked # {}
    /\ turnTrace # << >>
    /\ Last(turnTrace) = Sensitive

\* C2 as stated: a customer batch whose first call is neither the Escalation
\* tool nor a delegation tool and that holds a sensitive call at any position
\* is routed to the Sensitive tool path.
C2_Original ==
    ( /\ Applied("route_customer_assistant")
      /\ FnCalls # << >>
      /\ FnNames[1] \notin { CompleteOrEscalate, ToCustomerAssistant, ToMusicAssistant }
      /\ \E i \in 1..Len(FnNames) : FnNames[i] \in Range(customer_sensitive_tools) )
    => fnOut = Sensitive

\* C2 amended: a customer batch that holds no Escalation call at any position
\* and a sensitive call at some position is routed to the Sensitive tool
\* path; with an Escalation call at any position it is routed to leave_skill.
C2_SensitiveNeverDemoted ==
    ( /\ Applied("route_customer_assistant")
      /\ FnCalls # << >>
      /\ \E i \in 1..Len(FnNames) : FnNames[i] \in Range(customer_sensitive_tools) )
    => IF \E i \in 1..Len(FnNames) : FnNames[i] = CompleteOrEscalate
       THEN fnOut = "leave_skill"
       ELSE fnOut = Sensitive

C2_Witness ==
    /\ Applied("route_customer_assistant")
    /\ FnCalls # << >>
    /\ FnNames = << "check_for_songs", "update_customer_profile" >>
    /\ fnOut = Sensitive

\* C3: a customer batch of one safe call and one sensitive call, in either
\* order, is routed to the Sensitive tool path, never to the Safe one.
C3_MixedBatchSensitive ==
    ( /\ Applied("route_customer_assistant")
      /\ FnCalls # << >>
      /\ FnNames \in { << "get_customer_info", "update_customer_profile" >>,
                        << "update_customer_profile", "get_customer_info" >> } )
    => fnOut = Sensitive

C3_Witness ==
    /\ Applied("route_customer_assistant")
    /\ FnCalls # << >>
    /\ FnNames = << "get_customer_info", "update_customer_profile" >>
    /\ fnOut # "customer_safe_tools"

\* C4: update_dialog_stack with a context name makes the stack one longer, the
\* name on top and the old stack below; with "pop" it removes the top, or
\* returns the empty stack when the stack was empty; with None it returns the
\* stack unchanged.
C4_StackDiscipline ==
    Applied("update_dialog_stack") =>
        LET left == fnIn.left
            right == fnIn.right
        IN  CASE right = None -> fnOut = left
              [] right = "pop" ->
                    IF left = << >>
                    THEN fnOut = << >>
                    ELSE /\ Len(fnOut) = Len(left) - 1
                         /\ \A i \in 1..Len(fnOut) : fnOut[i] = left[i]
              [] OTHER ->
                    /\ Len(fnOut) = Len(left) + 1
                    /\ fnOut[Len(fnOut)] = right
                    /\ \A i \in 1..Len(left) : fnOut[i] = left[i]

C4_Witness ==
    /\ Applied("update_dialog_stack")
    /\ fnIn.right = "pop"
    /\ Len(fnIn.left) = MaxStack
    /\ Len(fnOut) = MaxStack - 1

\* C5: route_to_workflow returns primary_assistant whenever the dialog stack
\* is empty or absent, whatever the messages and user_info.
C5_EntryDefaultsToPrimary ==
    ( /\ Applied("route_to_workflow")
      /\ \/ "dialog_state" \notin DOMAIN fnIn.state
         \/ fnIn.state.dialog_state = << >> )
    => fnOut = "primary_assistant"

C5_Witness ==
    /\ Applied("route_to_workflow")
    /\ "dialog_state" \notin DOMAIN fnIn.state
    /\ Len(fnIn.state.messages) > 1
    /\ fnIn.state.user_info = "row"

\* C6: in every run started by an input, the entry router (the edge leaving
\* fetch_user_info) runs first and once, before any assistant node, and it
\* selects primary_assistant for an empty stack and the top of the stack
\* otherwise.
C6_EntryRouterOncePerTurn ==
    /\ (running /\ turnTrace = << >>) => next = "fetch_user_info"
    /\ turnTrace # << >> =>
          /\ turnTrace[1] = "fetch_user_info"
          /\ \A i \in 2..Len(turnTrace) : turnTrace[i] # "fetch_user_info"
    /\ next = "fetch_user_info" => turnTrace = << >>
    /\ turnTrace = << "fetch_user_info" >> =>
          next = IF dialog_state = << >> THEN "primary_assistant"
                 ELSE dialog_state[Len(dialog_state)]

C6_Witness ==
    /\ mainPc = "stream"
    /\ turnTrace = << "fetch_user_info" >>
    /\ dialog_state # << >>
    /\ next = "music_assistant"

\* C7: a tool node, its error fallback included, returns one ToolMessage per
\* call of the batch, in the order of the calls, each with the id of its call.
C7_OneResultPerCallInOrder ==
    Applied("tool_node") =>
        /\ Len(fnOut) = Len(FnCalls)
        /\ \A i \in 1..Len(FnCalls) :
              fnOut[i].type = "tool" /\ fnOut[i].tcid = FnCalls[i].id

C7_Witness ==
    /\ Applied("tool_node")
    /\ Len(FnCalls) = MaxBatch
    /\ \A i \in 1..Len(fnOut) : fnOut[i].content = "fallback_error"

ErrorContents == { "tool_error", "fallback_error" }

\* C8 as stated: when a call of a batch fails, the failing call is answered
\* by an error description and every sibling call by the result of its own
\* execution.
C8_Claim ==
    Applied("tool_node") =>
        \A i \in 1..Len(FnCalls) :
            (FnNames[i] \in NodeTools(fnIn.node) /\ fnIn.outcomes[i] = "raise") =>
                /\ Len(fnOut) = Len(FnCalls)
                /\ fnOut[i].content \in ErrorContents
                /\ \A j \in 1..Len(FnCalls) :
                      (FnNames[j] \in NodeTools(fnIn.node) /\ fnIn.outcomes[j] = "ok")
                          => fnOut[j].content = "result"

\* Every ToolMessage answers a call of an earlier AIMessage.
ToolResultsAnswerCalls(msgs) ==
    \A i \in 1..Len(msgs) :
        msgs[i].type = "tool" =>
            \E j \in 1..(i - 1) :
                /\ msgs[j].type = "ai"
                /\ \E k \in 1..Len(msgs[j].calls) : msgs[j].calls[k].id = msgs[i].tcid

\* C9 as stated: every ToolMessage of the state answers a call of an earlier
\* AIMessage, and a rejected approval injects a denial ToolMessage of which
\* this holds too.
C9_Claim ==
    /\ ToolResultsAnswerCalls(messages)
    /\ resolution = "denied" =>
          /\ messages # << >>
          /\ Last(messages).type = "tool"
          /\ Last(messages).content = "denied"

\* C10: an approval resumes the run at the pending node, which is
\* customer_sensitive_tools, with messages, user_info and dialog stack as
\* checkpointed; the first node to run after it is that node, and it appends
\* only its results.
C10_ResumeAtPendingNode ==
    [][ /\ (mainPc = "approval" /\ mainPc' = "resume") =>
              /\ next = Sensitive
              /\ next' = next
              /\ running'
              /\ messages' = messages
              /\ user_info' = user_info
              /\ dialog_state' = dialog_state
        /\ (mainPc = "resume" /\ resolution = "approved") =>
              /\ running /\ next = Sensitive
              /\ turnTrace' = Append(turnTrace, Sensitive)
              /\ SubSeq(messages', 1, Len(messages)) = messages
              /\ \A i \in (Len(messages) + 1)..Len(messages') :
                    messages'[i].type = "tool"
              /\ user_info' = user_info
              /\ dialog_state' = dialog_state
      ]_vars

C10_Witness ==
    /\ mainPc = "resume"
    /\ resolution = "none"
    /\ turnTrace # << >>
    /\ Last(turnTrace) = Sensitive
    /\ Last(messages).type = "tool"
    /\ next = "customer_assistant"

\* C11 as stated: answering a suspension with a denial appends one denial
\* ToolMessage carrying the reason, runs nothing of customer_sensitive_tools,
\* keeps the dialog stack, and goes on at the assistant on top of the stack.
C11_Claim ==
    [][ (mainPc = "approval" /\ resolution' = "denied") =>
            /\ Len(messages') = Len(messages) + 1
            /\ SubSeq(messages', 1, Len(messages)) = messages
            /\ Last(messages').type = "tool"
            /\ Last(messages').content = "denied"
            /\ invoked' = invoked
            /\ dialog_state' = dialog_state
            /\ dialog_state # << >>
            /\ running'
            /\ next' \in { "fetch_user_info", Last(dialog_state) }
      ]_vars

\* C12 as stated: an Assistant execution whose attempts were all answered by
\* a degenerate result up to the bound stops there and returns the fixed
\* apology message, with no tool calls, instead of asking the service again.
C12_Claim ==
    [][ (running /\ next \in AssistantNodes /\ retries = MaxRetries) =>
            /\ messages' # messages
            /\ Last(messages').type = "ai"
            /\ Last(messages').calls = << >>
            /\ Last(messages').content = "apology"
      ]_vars

NonEmptyContents == { "text", "list_text" }

\* C13: every AIMessage an Assistant node has returned to the graph has at
\* least one tool call or a non-empty content (for a content list, a text in
\* its first element), also after attempts that the node repeated.
C13_NonDegenerateOutput ==
    /\ \A i \in 1..Len(messages) :
          messages[i].type = "ai" =>
              \/ messages[i].calls # << >>
              \/ messages[i].content \in NonEmptyContents
    /\ (turnTrace # << >> /\ Last(turnTrace) \in AssistantNodes) =>
          /\ Last(messages).type = "ai"
          /\ Last(messages).calls = << >> =>
                Last(messages).content \notin { "", "list_notext" }

C13_Witness ==
    /\ turnTrace # << >>
    /\ Last(turnTrace) = "customer_assistant"
    /\ retries = MaxRetries
    /\ Last(messages).type = "ai"
    /\ Last(messages).calls = << >>
    /\ Last(messages).content = "list_text"

\* C14: one execution of an Assistant node appends exactly one message, an
\* AIMessage, whatever the number of attempts; an attempt that is repeated
\* changes nothing of the state; no corrective message is ever part of the
\* messages; an attempt in which the service fails adds nothing; user_info
\* and the dialog stack are left alone.
C14_AssistantAddsOneMessage ==
    [][ (running /\ next \in AssistantNodes) =>
            /\ \/ /\ messages' = messages
                  /\ next' = next
                  /\ retries' = retries + 1
               \/ /\ messages' = messages
                  /\ next' = next
                  /\ ~running'
                  /\ Last(turnTrace') = "CompletionError"
               \/ /\ Len(messages') = Len(messages) + 1
                  /\ SubSeq(messages', 1, Len(messages)) = messages
                  /\ Last(messages').type = "ai"
                  /\ retries' = retries
                  /\ turnTrace' = Append(turnTrace, next)
            /\ \A i \in 1..Len(messages') : messages'[i] # CorrectiveMessage
            /\ user_info' = user_info
            /\ dialog_state' = dialog_state
            /\ invoked' = invoked
      ]_vars

C14_Witness ==
    /\ turnTrace # << >>
    /\ Last(turnTrace) = "music_assistant"
    /\ retries = MaxRetries
    /\ Last(messages).type = "ai"
    /\ Last(messages).calls # << >>
    /\ Len(messages) >= 2
    /\ messages[Len(messages) - 1].type = "tool"

\* C15: a batch of the music or customer assistant whose first call is
\* CompleteOrEscalate is routed to leave_skill; leave_skill pops the dialog
\* stack and is followed by primary_assistant, the first assistant to run
\* after it.
C15_EscalationLeavesToPrimary ==
    [][ /\ ( /\ running
             /\ next \in { "music_assistant", "customer_assistant" }
             /\ messages' # messages
             /\ Last(messages').calls # << >>
             /\ Last(messages').calls[1].name = CompleteOrEscalate )
           => (running' /\ next' = "leave_skill")
        /\ (running /\ next = "leave_skill") =>
              /\ dialog_state' = SubSeq(dialog_state, 1, Len(dialog_state) - 1)
              /\ running'
              /\ next' = "primary_assistant"
              /\ turnTrace' = Append(turnTrace, "leave_skill")
        /\ (turnTrace # << >> /\ Last(turnTrace) = "leave_skill" /\ turnTrace' # << >>
              /\ Last(turnTrace') \in AssistantNodes)
           => Last(turnTrace') = "primary_assistant"
      ]_vars

C15_Witness ==
    /\ Len(turnTrace) >= 3
    /\ SubSeq(turnTrace, Len(turnTrace) - 2, Len(turnTrace))
          = << "music_assistant", "leave_skill", "primary_assistant" >>
    /\ dialog_state = << >>
    /\ \E i \in 1..Len(messages) :
          /\ messages[i].type = "ai"
          /\ messages[i].calls # << >>
          /\ messages[i].calls[1].name = CompleteOrEscalate

\* C16: a batch of the primary assistant whose first call is a delegation
\* tool is routed to the entry node of that context; the entry node pushes
\* the name of the assistant node its edge leads to, appends one ToolMessage
\* answering the first call of the batch, and that assistant runs next.
C16_DelegationEnters ==
    [][ /\ ( /\ running
             /\ next = "primary_assistant"
             /\ messages' # messages
             /\ Last(messages').calls # << >> )
           => /\ Last(messages').calls[1].name = ToCustomerAssistant
                    => (running' /\ next' = "enter_customer_profile")
              /\ Last(messages').calls[1].name = ToMusicAssistant
                    => (running' /\ next' = "enter_music")
        /\ (running /\ next \in EntryNodes) =>
              /\ next' = (IF next = "enter_customer_profile"
                          THEN "customer_assistant" ELSE "music_assistant")
              /\ running'
              /\ dialog_state' = Append(dialog_state, next')
              /\ Len(messages') = Len(messages) + 1
              /\ SubSeq(messages', 1, Len(messages)) = messages
              /\ Last(messages').type = "tool"
              /\ Last(messages').tcid = Last(messages).calls[1].id
              /\ turnTrace # << >>
              /\ Last(turnTrace) = "primary_assistant"
      ]_vars

C16_Witness ==
    /\ Len(turnTrace) >= 3
    /\ SubSeq(turnTrace, Len(turnTrace) - 2, Len(turnTrace))
          = << "primary_assistant", "enter_music", "music_assistant" >>
    /\ Last(dialog_state) = "music_assistant"
    /\ \E i \in 1..Len(messages) :
          /\ messages[i].type = "ai"
          /\ Len(messages[i].calls) = 2
          /\ messages[i].calls[1].name = ToMusicAssistant

\* C17: pop_dialog_state always returns the dialog_state update "pop"; when
\* the latest message carries tool calls it returns one ToolMessage, the
\* resumption notice, answering the first of them; otherwise no message.
C17_LeaveAnswersFirstCall ==
    Applied("pop_dialog_state") =>
        /\ fnOut.dialog_state = "pop"
        /\ IF FnCalls # << >>
           THEN /\ Len(fnOut.messages) = 1
                /\ fnOut.messages[1].type = "tool"
                /\ fnOut.messages[1].content = "resume_host"
                /\ fnOut.messages[1].tcid = FnCalls[1].id
           ELSE fnOut.messages = << >>

C17_Witness ==
    /\ Applied("pop_dialog_state")
    /\ Len(FnCalls) = MaxBatch
    /\ FnCalls[1].id # FnCalls[MaxBatch].id
    /\ Len(fnOut.messages) = 1
    /\ fnOut.messages[1].tcid = FnCalls[1].id

\* The tool set of the context a router belongs to.
ContextTools(fn) ==
    CASE fn = "route_primary_assistant" -> Range(primary_tools)
      [] fn = "route_customer_assistant" -> Range(customer_tools)
      [] fn = "route_music_assistant" -> Range(music_tools)

RouterFns == { "route_primary_assistant", "route_customer_assistant",
               "route_music_assistant" }

\* The batch handed to a router holds a name that is neither the Escalation
\* tool, nor a delegation tool, nor a tool of the router's context.
UnknownInBatch ==
    /\ fnIn.fn \in RouterFns
    /\ \E i \in 1..Len(FnCalls) :
          FnNames[i] \notin ContextTools(fnIn.fn)
              \cup { CompleteOrEscalate, ToCustomerAssistant, ToMusicAssistant }

HasEscalation == \E i \in 1..Len(FnCalls) : FnNames[i] = CompleteOrEscalate

\* C18 as stated: a router given a batch with an unknown tool name fails with
\* a routing error and routes the batch to no node.
C18_Original ==
    (fnDone /\ UnknownInBatch) => fnOut = "RoutingError"

\* C18 amended: a batch with an unknown tool name raises no error in any
\* router and is routed by the other rules: by the primary router to the
\* entry node of a delegation in first place and else to
\* primary_assistant_tools; by the customer router to leave_skill when it
\* holds an Escalation call and else to customer_sensitive_tools; by the
\* music router to leave_skill when it holds an Escalation call and else to
\* music_tools. A tool node answers a call whose name is not among its tools
\* by an error message and runs no tool for it.
C18_UnknownNamesRouted ==
    /\ (fnDone /\ UnknownInBatch) =>
          fnOut =
            CASE fnIn.fn = "route_primary_assistant" ->
                    IF FnNames[1] = ToCustomerAssistant THEN "enter_customer_profile"
                    ELSE IF FnNames[1] = ToMusicAssistant THEN "enter_music"
                    ELSE "primary_assistant_tools"
              [] fnIn.fn = "route_customer_assistant" ->
                    IF HasEscalation THEN "leave_skill" ELSE Sensitive
              [] fnIn.fn = "route_music_assistant" ->
                    IF HasEscalation THEN "leave_skill" ELSE "music_tools"
    /\ Applied("tool_node") =>
          \A i \in 1..Len(FnCalls) :
              FnNames[i] \notin NodeTools(fnIn.node) =>
                  /\ Len(fnOut) = Len(FnCalls)
                  /\ fnOut[i].tcid = FnCalls[i].id
                  /\ fnOut[i].content \in { "invalid_tool", "fallback_error" }

C18_Witness ==
    /\ Applied("route_customer_assistant")
    /\ FnCalls # << >>
    /\ FnNames = << "get_customer_info", "unknown_tool" >>
    /\ fnOut = Sensitive

\* C19 as stated: route_primary_assistant applied to a state whose latest
\* message is a user message without tool calls raises ValueError.
C19_Claim ==
    ( /\ Applied("route_primary_assistant")
      /\ Last(fnIn.state.messages).type = "human" )
    => fnOut = "ValueError"

\* C20: a run ends with no pending node only by the router of an assistant
\* node that sees a latest AIMessage without tool calls; in every state
\* without a pending node that follows a run, the last message is an
\* AIMessage without tool calls and with non-empty content, and it is the
\* message main() prints.
C20_TurnEndsOnPlainAnswer ==
    [][ /\ (running /\ ~running' /\ next' = END) =>
              /\ next \in AssistantNodes
              /\ messages' # messages
              /\ Last(messages').type = "ai"
              /\ Last(messages').calls = << >>
        /\ (~running' /\ next' = END /\ turnTrace' # << >>) =>
              /\ Last(turnTrace') \in AssistantNodes
              /\ Last(messages').type = "ai"
              /\ Last(messages').calls = << >>
              /\ Last(messages').content \in NonEmptyContents
              /\ print_latest_event(messages') = Last(messages')
      ]_vars

C20_Witness ==
    /\ ~running
    /\ next = END
    /\ mainPc = "input"
    /\ Len(turnTrace) > 4
    /\ Last(turnTrace) = "customer_assistant"
    /\ retries = MaxRetries
    /\ Last(messages).content = "list_text"
    /\ \E i \in 1..Len(messages) : messages[i].type = "tool"

\* A run has returned and left a node pending in the checkpoint.
Raised == turnTrace # << >> /\ Last(turnTrace) = "CompletionError"

Suspended == ~running /\ next # END /\ ~Raised

\* The ids of the tool calls of a message.
CallIds(msg) == { msg.calls[i].id : i \in 1..Len(msg.calls) }

\* C21: a run is suspended only before customer_sensitive_tools: the pending
\* node is that node and no other, the last message is the AIMessage the
\* customer assistant has just returned with its tool calls, none of which
\* is answered by a ToolMessage yet, and the snapshot the caller reads then
\* ends in that message; main() is at the approval prompt only when
\* suspended so.
C21_SuspendedOnlyBeforeSensitive ==
    /\ Suspended =>
          /\ next = Sensitive
          /\ turnTrace # << >>
          /\ Last(turnTrace) = "customer_assistant"
          /\ messages # << >>
          /\ Last(messages).type = "ai"
          /\ Last(messages).calls # << >>
          /\ \A i \in 1..Len(messages) :
                messages[i].type = "tool" =>
                    messages[i].tcid \notin CallIds(Last(messages))
          /\ print_latest_event(messages) = Last(messages)
          /\ route_customer_assistant(State) = Sensitive
    /\ mainPc = "approval" => Suspended

C21_Witness ==
    /\ Suspended
    /\ mainPc = "approval"
    /\ next = Sensitive
    /\ Len(Last(messages).calls) = 2
    /\ Last(messages).calls[1].name = "get_customer_info"
    /\ \E i \in 1..Len(messages) : messages[i].type = "tool"

\* C22: a user message posted to the session is appended to the messages of
\* its checkpoint, with user_info and the dialog stack as checkpointed; the
\* run then passes fetch_user_info, and the first assistant it runs is the
\* one on top of the checkpointed dialog stack (the customer or music
\* assistant when a turn ended inside that context), the primary assistant
\* only for an empty stack.
C22_ContextPersistsAcrossTurns ==
    [][ /\ (mainPc = "input" /\ mainPc' = "stream") =>
              /\ messages' = Append(messages, HumanMessage)
              /\ dialog_state' = dialog_state
              /\ user_info' = user_info
              /\ running' /\ next' = "fetch_user_info"
        /\ (running /\ next = "fetch_user_info") =>
              /\ messages' = messages
              /\ dialog_state' = dialog_state
              /\ running'
              /\ next' = (IF dialog_state = << >> THEN "primary_assistant"
                          ELSE Last(dialog_state))
        /\ (Len(turnTrace) = 1 /\ Len(turnTrace') = 2 /\ ~Raised') =>
              /\ turnTrace'[2] \in AssistantNodes
              /\ turnTrace'[2] = (IF dialog_state = << >> THEN "primary_assistant"
                                  ELSE Last(dialog_state))
      ]_vars

C22_Witness ==
    /\ mainPc = "stream"
    /\ Len(turnTrace) = 2
    /\ turnTrace[2] = "customer_assistant"
    /\ dialog_state = << "customer_assistant" >>
    /\ Len(messages) >= 3
    /\ messages[Len(messages) - 1] = HumanMessage
    /\ messages[Len(messages) - 2].type = "ai"
    /\ messages[Len(messages) - 2].calls = << >>

\* The step in which the completion service fails inside an Assistant node.
FailureStep == ~Raised /\ Raised'

\* C23 as stated: when the completion service fails the turn is aborted and
\* the session is left with no pending node, main() back at the prompt.
C23_Original ==
    [][ FailureStep => (~running' /\ next' = END /\ mainPc' = "input") ]_vars

\* C23 amended: when the completion service fails in a run of the chat loop,
\* the run is aborted with nothing added to the state, the failed assistant
\* node stays pending in the checkpoint, main() returns to the prompt and
\* asks for no approval, and the next user message is accepted: it is
\* appended and the run starts over at fetch_user_info; a failure in one of
\* the two invokes that precede the chat loop ends main().
C23_FailureAbortsTurn ==
    [][ /\ FailureStep =>
              /\ running /\ ~running'
              /\ next \in AssistantNodes
              /\ next' = next
              /\ messages' = messages
              /\ user_info' = user_info
              /\ dialog_state' = dialog_state
              /\ invoked' = invoked
              /\ mainPc' = (IF mainPc \in { "stream", "resume" } THEN "input"
                            ELSE "exit")
        /\ (Raised /\ ~running) =>
              /\ mainPc \in { "input", "exit" }
              /\ mainPc = "exit" => mainPc' = "exit"
              /\ mainPc' \in { "input", "exit", "stream" }
              /\ mainPc' = "stream" =>
                    /\ messages' = Append(messages, HumanMessage)
                    /\ running'
                    /\ next' = "fetch_user_info"
                    /\ turnTrace' = << >>
      ]_vars

C23_Witness ==
    /\ mainPc = "stream"
    /\ running
    /\ turnTrace = << "fetch_user_info" >>
    /\ next = "customer_assistant"
    /\ Len(messages) >= 2
    /\ messages[Len(messages)] = HumanMessage
    /\ messages[Len(messages) - 1] = HumanMessage

\* C24: the messages are append-only: every step of the session, whether a
\* node execution, a posted message, a suspension, an approval, a denial or
\* a failure, keeps the stored messages as a prefix of the new ones.
C24_MessagesAppendOnly ==
    [][ /\ Len(messages') >= Len(messages)
        /\ SubSeq(messages', 1, Len(messages)) = messages
      ]_vars

C24_Witness ==
    /\ Len(messages) = MaxMsgs
    /\ invoked # {}
    /\ ~running
    /\ next = END
    /\ \E i \in 1..Len(messages) : messages[i].content = "enter"
    /\ \E i \in 1..Len(messages) : messages[i] = HumanMessage

\* The state cut down to what a router is said to read: the latest message.
LatestOnly(state) ==
    [ messages |-> << Last(state.messages) >>, user_info |-> None,
      dialog_state |-> << >> ]

\* The state cut down to what the entry router is said to read: the stack.
StackOnly(state) ==
    IF "dialog_state" \in DOMAIN state
    THEN [ dialog_state |-> state.dialog_state ]
    ELSE [ user_info |-> None ]

\* C25: a router returns the name of one node (or END) and no state update;
\* the three assistant routers return what they return for the latest
\* message alone, whatever the earlier messages, user_info and the stack;
\* route_to_workflow returns what it returns for the dialog stack alone.
C25_RoutersReadOnly ==
    /\ (fnDone /\ fnIn.fn \in RouterFns) =>
          /\ fnOut \in ToolNodes \cup EntryNodes \cup { "leave_skill", END }
          /\ fnOut =
               CASE fnIn.fn = "route_primary_assistant" ->
                       route_primary_assistant(LatestOnly(fnIn.state))
                 [] fnIn.fn = "route_customer_assistant" ->
                       route_customer_assistant(LatestOnly(fnIn.state))
                 [] fnIn.fn = "route_music_assistant" ->
                       route_music_assistant(LatestOnly(fnIn.state))
    /\ Applied("route_to_workflow") =>
          /\ fnOut \in AssistantNodes
          /\ fnOut = route_to_workflow(StackOnly(fnIn.state))

C25_Witness ==
    /\ Applied("route_customer_assistant")
    /\ Len(fnIn.state.messages) > 3
    /\ fnIn.state.user_info = "row"
    /\ fnIn.state.dialog_state # << >>
    /\ FnNames = << "get_customer_info", "get_customer_info" >>
    /\ fnOut = "customer_safe_tools"

StateAfter == [ messages |-> messages', user_info |-> user_info',
                dialog_state |-> dialog_state' ]

\* C27: one node at a time: a run started by an input starts at the one
\* successor of START; every node that has executed has exactly one
\* successor, computed from the state that holds its output, and that
\* successor is the node that is pending or running next; a run resumes only
\* at its single pending node.
C27_OneNodeAtATime ==
    [][ /\ (running /\ turnTrace' = Append(turnTrace, next)) =>
              /\ Cardinality(Successors(next, StateAfter)) = 1
              /\ Successors(next, StateAfter) = { next' }
              /\ running' = (next' # END /\ next' \notin interrupt_before)
        /\ (~running /\ running' /\ mainPc # "approval") =>
              /\ Successors(START, StateAfter) = { next' }
              /\ turnTrace' = << >>
        /\ (~running /\ running' /\ mainPc = "approval") =>
              /\ next' = next
              /\ next # END
        /\ (running /\ turnTrace' = turnTrace) =>
              next' = next
      ]_vars

C27_Witness ==
    /\ running
    /\ Len(turnTrace) >= 5
    /\ Last(turnTrace) = Sensitive
    /\ next = "customer_assistant"
    /\ mainPc = "resume"
    /\ Len(Last(messages).calls) = 0
    /\ Last(messages).type = "tool"

\* The batch is not empty and each of its calls is a customer safe tool.
AllSafe(msg) ==
    /\ msg.calls # << >>
    /\ \A i \in 1..Len(msg.calls) : msg.calls[i].name \in Range(customer_safe_tools)

\* C28: a batch of the customer assistant made of calls of safe tools only
\* is routed to customer_safe_tools and the run goes on there without
\* stopping for an approval; that node answers the calls, invokes no
\* update, and is followed by customer_assistant.
C28_SafeBatchRunsUnsuspended ==
    [][ /\ ( /\ running
             /\ next = "customer_assistant"
             /\ messages' # messages
             /\ AllSafe(Last(messages')) )
           => /\ running'
              /\ next' = "customer_safe_tools"
              /\ mainPc' = mainPc
        /\ (running /\ next = "customer_safe_tools") =>
              /\ AllSafe(Last(messages))
              /\ Len(messages') = Len(messages) + Len(Last(messages).calls)
              /\ invoked' = invoked
              /\ running'
              /\ next' = "customer_assistant"
              /\ mainPc' = mainPc
        /\ mainPc' = "approval" => next' # "customer_safe_tools"
      ]_vars

C28_Witness ==
    /\ running
    /\ next = "customer_assistant"
    /\ mainPc = "stream"
    /\ Last(turnTrace) = "customer_safe_tools"
    /\ Len(messages) >= 3
    /\ Last(messages).content = "result"
    /\ messages[Len(messages) - 1].content = "result"
    /\ Len(messages[Len(messages) - 2].calls) = 2

\* A request as the claims classify it: the customer id is a positive
\* integer, the field is one of the twelve columns, the new value is a string
\* with a character that is not a blank.
UpdateApplied == fnDone /\ fnIn.fn = "update_customer_profile"

PositiveInt(customer_id) == customer_id.type = "int" /\ customer_id.value \in Nat \ { 0 }

Blank(new_value) ==
    new_value.type = "str" /\ \A i \in DOMAIN new_value.value : new_value.value[i] = " "

Returned(key) == fnOut.raised = None /\ fnOut.result.key = key

\* C29: update_customer_profile answers a request whose customer_id is not a
\* positive integer, whose field is not one of the twelve allowed names, or
\* whose new_value is empty or only whitespace with an error value, and the
\* customers table is the same after the call as before it.
C29_InvalidRequestRejected ==
    ( /\ UpdateApplied
      /\ \/ ~PositiveInt(fnIn.customer_id)
         \/ fnIn.field \notin Columns
         \/ Blank(fnIn.new_value) )
    => /\ Returned("error")
       /\ fnOut.customers = fnIn.customers

\* A whitespace-only value for an existing customer and an allowed field,
\* with no database fault: only the validation stands between it and the row.
C29_Witness ==
    /\ UpdateApplied
    /\ fnIn.customer_id = [ type |-> "int", value |-> 1 ]
    /\ fnIn.field = "Email"
    /\ fnIn.new_value = [ type |-> "str", value |-> << " ", " " >> ]
    /\ 1 \in DOMAIN fnIn.customers
    /\ fnIn.fault = "none"
    /\ Returned("error")

\* C30: for a valid request, update_customer_profile returns a success value
\* exactly when the UPDATE ran and matched at least one row, and then that
\* customer's field holds new_value and nothing else in the table differs;
\* when no row has the id it returns the error 'No rows updated' and the
\* table is unchanged; an sqlite3 error is returned as an error value with
\* the table unchanged and is not raised.
C30_ValidRequestOutcome ==
    ( /\ UpdateApplied
      /\ PositiveInt(fnIn.customer_id)
      /\ fnIn.field \in Columns
      /\ fnIn.new_value.type = "str" /\ ~Blank(fnIn.new_value) )
    => LET id == fnIn.customer_id.value
           exists == id \in DOMAIN fnIn.customers
       IN  /\ Returned("success") <=> ( fnIn.fault = "none" /\ exists )
           /\ Returned("success") =>
                 /\ fnOut.customers[id][fnIn.field] = fnIn.new_value.value
                 /\ \A r \in DOMAIN fnIn.customers, c \in Columns :
                       << r, c >> # << id, fnIn.field >> =>
                           fnOut.customers[r][c] = fnIn.customers[r][c]
           /\ ( fnIn.fault = "none" /\ ~exists ) =>
                 /\ Returned("error")
                 /\ fnOut.result.text = "No rows updated"
                 /\ fnOut.customers = fnIn.customers
           /\ issubclass(fnIn.fault, "sqlite3.Error") =>
                 /\ Returned("error")
                 /\ fnOut.customers = fnIn.customers

\* A successful update whose value carries a leading blank, stored as given.
C30_Witness ==
    /\ UpdateApplied
    /\ fnIn.customer_id = [ type |-> "int", value |-> 2 ]
    /\ fnIn.field = "Phone"
    /\ fnIn.new_value = [ type |-> "str", value |-> << " ", "a" >> ]
    /\ Returned("success")
    /\ fnOut.customers[2]["Phone"] = << " ", "a" >>
    /\ fnOut.customers[1] = fnIn.customers[1]

\* The checkpoint of a session: the engine's state for the one taking
\* steps, the store's entry for any other.
CheckpointOf(t) ==
    IF t = thread_id
    THEN [ messages |-> messages, user_info |-> user_info,
           dialog_state |-> dialog_state, next |-> next ]
    ELSE get_tuple(store, t)

\* C26: sessions with distinct thread_id are independent: a step of one
\* session leaves the messages, user_info, dialog stack and pending node
\* checkpointed for every other session as they were, and when a session takes
\* over it has the checkpoint last written under its own thread_id.
C26_SessionsIndependent ==
    [][ \A t \in ThreadIds :
          ( thread_id' # thread_id \/ t # thread_id ) =>
              CheckpointOf(t)' = CheckpointOf(t) ]_vars

\* Both sessions have run and their checkpoints differ in messages, dialog
\* stack and pending node; the one that stepped first is back, inside the
\* CustomerProfile context with customer_assistant pending.
C26_Witness ==
    /\ thread_id = "thread_1"
    /\ "thread_2" \in DOMAIN store
    /\ Len(store["thread_2"].messages) > 0
    /\ store["thread_2"].messages # messages
    /\ store["thread_2"].dialog_state # dialog_state
    /\ store["thread_2"].next # next
    /\ parked["thread_2"].mainPc = "invoke_system"
    /\ running
    /\ next = "customer_assistant"
    /\ dialog_state = << "customer_assistant" >>
    /\ Len(messages) = MaxSessMsgs

\* C31: get_customer_info answers a customer_id that is not a positive
\* integer with an error value and without querying the database, answers an
\* id no customer has with an error value, and otherwise returns the row of
\* that customer; it raises nothing and the customers table is the same after
\* the call as before it.
C31_GetCustomerInfoOutcome ==
    ( fnDone /\ fnIn.fn = "get_customer_info" )
    => LET id == fnIn.customer_id.value
       IN  /\ fnOut.raised = None
           /\ fnOut.customers = fnIn.customers
           /\ ~PositiveInt(fnIn.customer_id) =>
                 Returned("error") /\ ~fnOut.queried
           /\ ( PositiveInt(fnIn.customer_id) /\ id \notin DOMAIN fnIn.customers ) =>
                 Returned("error")
           /\ ( PositiveInt(fnIn.customer_id) /\ id \in DOMAIN fnIn.customers
                 /\ fnIn.fault = "none" ) =>
                 Returned("rows") /\ fnOut.result.rows = << fnIn.customers[id] >>

\* The id 0 over a table with customers and a working database: rejected
\* before any query.
C31_Witness ==
    /\ fnDone /\ fnIn.fn = "get_customer_info"
    /\ fnIn.customer_id = [ type |-> "int", value |-> 0 ]
    /\ DOMAIN fnIn.customers # {}
    /\ fnIn.fault = "none"
    /\ Returned("error") /\ ~fnOut.queried
    /\ fnOut.customers = fnIn.customers

\* C32: the dialog stack never holds more than one context: an entry node,
\* the only node that pushes, is only due to run right after the Primary
\* assistant and on an empty stack, and the Primary assistant is only due to
\* run on an empty stack.
C32_StackAtMostOne ==
    /\ Len(dialog_state) <= 1
    /\ ( running /\ next \in EntryNodes ) =>
          /\ dialog_state = << >>
          /\ turnTrace # << >> /\ Last(turnTrace) = "primary_assistant"
    /\ ( running /\ next = "primary_assistant" ) => dialog_state = << >>

\* A context was left and another one entered in the same run.
C32_Witness ==
    /\ dialog_state = << "music_assistant" >>
    /\ \E i, j \in DOMAIN turnTrace :
          /\ i < j
          /\ turnTrace[i] = "enter_customer_profile"
          /\ turnTrace[j] = "enter_music"
    /\ \E i \in DOMAIN turnTrace : turnTrace[i] = "leave_skill"

\* The assistant of the active context: the top of the dialog stack, the
\* Primary assistant when the stack is empty.
ActiveAssistant ==
    IF dialog_state = << >> THEN "primary_assistant" ELSE Last(dialog_state)

\* C33: an Assistant node that is due to run is the assistant of the active
\* context: primary_assistant with an empty stack, customer_assistant with
\* customer_assistant on top, music_assistant with music_assistant on top.
C33_AssistantOfActiveContext ==
    next \in AssistantNodes => next = ActiveAssistant

\* A later turn starts inside the CustomerProfile context: the entry router
\* has just sent the new message to customer_assistant.
C33_Witness ==
    /\ mainPc = "stream"
    /\ running
    /\ turnTrace = << "fetch_user_info" >>
    /\ next = "customer_assistant"
    /\ dialog_state = << "customer_assistant" >>
    /\ \E i \in DOMAIN messages : messages[i].content = "enter"

\* C34: leave_skill is only due to run after the customer_assistant or the
\* music_assistant, with that assistant on top of a non-empty dialog stack and
\* a latest message that carries tool calls; once it has run the stack is one
\* element shorter and exactly one ToolMessage, answering the first call of
\* that message, has been appended.
C34_LeaveOnlyInsideContext ==
    /\ ( running /\ next = "leave_skill" ) =>
          /\ dialog_state # << >>
          /\ turnTrace # << >>
          /\ Last(turnTrace) \in { "customer_assistant", "music_assistant" }
          /\ Last(dialog_state) = Last(turnTrace)
          /\ Last(messages).type = "ai"
          /\ Last(messages).calls # << >>
    /\ ( running /\ turnTrace # << >> /\ Last(turnTrace) = "leave_skill" ) =>
          /\ dialog_state = << >>
          /\ Len(messages) >= 2
          /\ Last(messages).type = "tool"
          /\ messages[Len(messages) - 1].type = "ai"
          /\ messages[Len(messages) - 1].calls # << >>
          /\ Last(messages).tcid = messages[Len(messages) - 1].calls[1].id

\* The MusicCatalog context has just been left on a batch of two calls.
C34_Witness ==
    /\ running
    /\ Len(turnTrace) >= 2
    /\ SubSeq(turnTrace, Len(turnTrace) - 1, Len(turnTrace))
          = << "music_assistant", "leave_skill" >>
    /\ dialog_state = << >>
    /\ next = "primary_assistant"
    /\ Len(messages[Len(messages) - 1].calls) = 2

\* The ToolMessages of the state that answer the call.
ResultsOf(call) ==
    { j \in DOMAIN messages :
        messages[j].type = "tool" /\ messages[j].tcid = call.id }

\* C35 as stated: whenever an Assistant node is due to run, every tool call
\* of every AIMessage in the state has exactly one ToolMessage with its id in
\* the state.
C35_Claim ==
    ( running /\ next \in AssistantNodes ) =>
        \A i \in DOMAIN messages :
            messages[i].type = "ai" =>
                \A k \in DOMAIN messages[i].calls :
                    Cardinality(ResultsOf(messages[i].calls[k])) = 1

\* The batch of the message holds a CompleteOrEscalate call, at any position.
Escalates(msg) ==
    \E i \in 1..Len(msg.calls) : msg.calls[i].name = CompleteOrEscalate

\* C36: when the customer_assistant or the music_assistant has returned a
\* batch that holds a CompleteOrEscalate call at any position, the run goes on
\* to leave_skill without stopping; after leave_skill the run goes on to
\* primary_assistant, still without stopping, and no call of that batch was
\* handed to update_customer_profile or answered by a tool's result.
C36_EscalationTakesPrecedence ==
    /\ ( /\ turnTrace # << >>
         /\ Last(turnTrace) \in { "customer_assistant", "music_assistant" }
         /\ Last(messages).type = "ai"
         /\ Escalates(Last(messages)) )
       => ( running /\ next = "leave_skill" )
    /\ ( turnTrace # << >> /\ Last(turnTrace) = "leave_skill" )
       => /\ running /\ next = "primary_assistant"
          /\ mainPc # "approval"
          /\ LET batch == messages[Len(messages) - 1]
             IN  /\ Escalates(batch)
                 /\ CallIds(batch) \cap invoked = {}
                 /\ \A j \in DOMAIN messages :
                       ( messages[j].type = "tool" /\ messages[j].tcid \in CallIds(batch) )
                           => ( j = Len(messages) /\ messages[j].content # "result" )

\* The CustomerProfile context has just been left on the batch
\* [update_customer_profile, CompleteOrEscalate].
C36_Witness ==
    /\ running
    /\ Len(turnTrace) >= 2
    /\ SubSeq(turnTrace, Len(turnTrace) - 1, Len(turnTrace))
          = << "customer_assistant", "leave_skill" >>
    /\ next = "primary_assistant"
    /\ Len(messages[Len(messages) - 1].calls) = 2
    /\ messages[Len(messages) - 1].calls[1].name = "update_customer_profile"
    /\ messages[Len(messages) - 1].calls[2].name = CompleteOrEscalate
    /\ invoked = {}

\* C37: when the customer_assistant has returned a batch without a
\* CompleteOrEscalate call in which some name is not a customer safe tool, be
\* it update_customer_profile or the name of no tool at all, the pending node
\* is customer_sensitive_tools and it runs only inside a resume the caller
\* approved; customer_safe_tools is only due to run on a batch made of safe
\* tool names only.
C37_NonSafeBatchNeedsApproval ==
    /\ ( /\ turnTrace # << >>
         /\ Last(turnTrace) = "customer_assistant"
         /\ Last(messages).type = "ai"
         /\ Last(messages).calls # << >>
         /\ ~Escalates(Last(messages))
         /\ ~AllSafe(Last(messages)) )
       => /\ next = Sensitive
          /\ running => ( mainPc = "resume" /\ resolution = "approved" )
    /\ next = "customer_safe_tools" =>
          /\ Last(messages).type = "ai"
          /\ AllSafe(Last(messages))

\* A chat turn is suspended at the approval prompt on a batch whose only
\* call names no tool of any context.
C37_Witness ==
    /\ mainPc = "approval"
    /\ ~running
    /\ next = Sensitive
    /\ Last(turnTrace) = "customer_assistant"
    /\ Len(Last(messages).calls) = 1
    /\ Last(messages).calls[1].name = "unknown_tool"

\* The assistant each tool node belongs to.
OwnerOf(node) ==
    CASE node = "primary_assistant_tools" -> "primary_assistant"
      [] node \in { "customer_safe_tools", "customer_sensitive_tools" } ->
             "customer_assistant"
      [] node = "music_tools" -> "music_assistant"

\* C38: a step of a tool node leaves dialog_state and user_info as they were
\* and is followed, without a stop, by the assistant the node belongs to, which
\* is the assistant of the active context.
C38_ToolNodeReturnsToOwner ==
    [][ ( running /\ next \in ToolNodes /\ turnTrace' = Append(turnTrace, next) )
        => /\ dialog_state' = dialog_state
           /\ user_info' = user_info
           /\ running'
           /\ next' = OwnerOf(next)
           /\ next' = ActiveAssistant'
      ]_vars

\* music_tools has run inside the MusicCatalog context and music_assistant
\* is due.
C38_Witness ==
    /\ running
    /\ turnTrace # << >>
    /\ Last(turnTrace) = "music_tools"
    /\ next = "music_assistant"
    /\ dialog_state = << "music_assistant" >>
    /\ Last(messages).type = "tool"

\* C39 as stated: update_customer_profile is handed only calls of the batch
\* that was pending when the caller approved; a run resumed by an approval
\* that stops again before customer_sensitive_tools puts main() back at the
\* approval prompt with none of the new calls executed; and main() leaves its
\* approval loop for the next prompt only when no node is pending.
C39_Claim ==
    [][ /\ invoked' # invoked =>
              /\ mainPc = "resume" /\ resolution = "approved"
              /\ ( invoked' \ invoked ) \subseteq CallIds(Last(messages))
        /\ ( mainPc = "resume" /\ running /\ ~running' /\ next' = Sensitive ) =>
              /\ mainPc' = "approval"
              /\ CallIds(Last(messages')) \cap invoked' = {}
        /\ ( mainPc \in { "approval", "resume" } /\ mainPc' = "input" ) =>
              next' = END
      ]_vars

====
